---- MODULE Spec2Model ----
(***************************************************************************)
(* Model of pycovjson/write.py: the Writer that assembles a Coverage       *)
(* mapping from a data source and serializes it with CustomEncoder, the    *)
(* placeholder-substitution JSON encoder.                                  *)
(*                                                                         *)
(* JSON values are tagged records with the same four fields, so that any   *)
(* two of them can be compared:                                            *)
(*   num    [t |-> "num",    n |-> 3]                                      *)
(*   str    [t |-> "str",    s |-> "x"]                                    *)
(*   arr    [t |-> "arr",    a |-> <<v1, ..., vk>>]                        *)
(*   obj    [t |-> "obj",    a |-> <<pair1, ..., pairk>>]  (a Python dict, *)
(*          insertion ordered), pair = [t |-> "pair", s |-> key,           *)
(*          a |-> <<value>>]                                               *)
(*   custom [t |-> "custom", s |-> mode, a |-> <<wrapped value>>], an      *)
(*          instance of class Custom                                       *)
(* JSON text is a sequence of tokens [k, s, n]: punctuation, whitespace,   *)
(* numbers, and the characters between two quote tokens.                   *)
(*                                                                         *)
(* The interpreter is one that still has time.clock (Python 3.3 - 3.7),    *)
(* the one save_json was written for.                                      *)
(***************************************************************************)
EXTENDS Integers, Sequences, FiniteSets, TLC

\* ------------------------------------------------------------------ bounds
MaxVars == 2      \* longest vars_to_write list
MaxT == 2         \* most time steps of the dataset
MaxExtent == 2    \* largest extent of the x and of the y axis

\* -------------------------------------------------------------- JSON values
Num(i) == [t |-> "num", n |-> i, s |-> "", a |-> <<>>]
Str(x) == [t |-> "str", n |-> 0, s |-> x, a |-> <<>>]
Arr(xs) == [t |-> "arr", n |-> 0, s |-> "", a |-> xs]
Pair(key, v) == [t |-> "pair", n |-> 0, s |-> key, a |-> <<v>>]
Obj(pairs) == [t |-> "obj", n |-> 0, s |-> "", a |-> pairs]

\* class Custom: a value and the keyword arguments its own json.dumps gets;
\* mode "compact" is separators=(',', ':'), mode "no_indent" is no argument.
Custom(value, mode) == [t |-> "custom", n |-> 0, s |-> mode, a |-> <<value>>]

NumArr(ns) == Arr([i \in 1..Len(ns) |-> Num(ns[i])])
StrArr(ss) == Arr([i \in 1..Len(ss) |-> Str(ss[i])])

\* dict access: obj[key], the keys of a dict, and obj[key] = v in place
HasKey(o, key) == \E i \in 1..Len(o.a) : o.a[i].s = key
Get(o, key) == o.a[CHOOSE i \in 1..Len(o.a) : o.a[i].s = key].a[1]
Keys(o) == {o.a[i].s : i \in 1..Len(o.a)}
Put(o, key, v) ==
    [o EXCEPT !.a = [i \in 1..Len(o.a) |->
                        IF o.a[i].s = key THEN Pair(key, v) ELSE o.a[i]]]

\* ----------------------------------------------------------------- tokens
P(x) == [k |-> "p", s |-> x, n |-> 0]
Quote == P("\"")
Chars(x) == [k |-> "chars", s |-> x, n |-> 0]
NumTok(i) == [k |-> "num", s |-> "", n |-> i]
Space == [k |-> "ws", s |-> " ", n |-> 1]
NewlineIndent(i) == [k |-> "ws", s |-> "\n", n |-> i]
\* the characters @@<key>@@ of a placeholder; a key is uuid4().hex, modelled
\* by the number of the default() call that drew it (every draw is fresh)
PlaceholderChars(key) == [k |-> "chars", s |-> "@@key@@", n |-> key]

\* ------------------------------------------------- json.dumps, CustomEncoder
indent == 2       \* save_json(obj, path, indent=2)

\* The formatting of one json.dumps call: the indent (-1 for None) and the
\* (item_separator, key_separator) pair. json.dumps takes (', ', ': ') when
\* indent is None and (',', ': ') otherwise, unless separators are given.
DefaultStyle == [indent |-> -1, item |-> <<P(","), Space>>, key |-> <<P(":"), Space>>]
CompactStyle == [indent |-> -1, item |-> <<P(",")>>, key |-> <<P(":")>>]
IndentStyle == [indent |-> indent, item |-> <<P(",")>>, key |-> <<P(":"), Space>>]

\* Custom(obj[name], separators=(',', ':')) and Custom(obj[name])
CustomArgsStyle(mode) == IF mode = "compact" THEN CompactStyle ELSE DefaultStyle

\* What an encoder has produced: the text, the entries default() added to
\* CustomEncoder._replacement_map (in call order, so that the entry of key
\* k is the k-th), and the exception, if any.
Encoded(toks) == [toks |-> toks, map |-> <<>>, err |-> "none"]

NewlineTok(style, level) ==
    IF style.indent < 0 THEN <<>> ELSE <<NewlineIndent(style.indent * level)>>

RECURSIVE dumps(_, _)
RECURSIVE iterencode(_, _, _, _, _)
RECURSIVE iterencode_items(_, _, _, _, _, _)

\* CustomEncoder.default: draw a fresh key, pre-render the wrapped value with
\* the plain json.dumps under the marker's own arguments, return "@@key@@"
\* (which the encoder then writes as a string). json.JSONEncoder.default
\* raises TypeError. drawn is the number of keys drawn before.
default(o, cls, drawn) ==
    IF cls = "CustomEncoder" /\ o.t = "custom"
    THEN [toks |-> <<Quote, PlaceholderChars(drawn + 1), Quote>>,
          map |-> <<dumps(o.a[1], CustomArgsStyle(o.s))>>,
          err |-> "none"]
    ELSE [toks |-> <<>>, map |-> <<>>, err |-> "TypeError"]

Bracketed(open, inner, close) == [inner EXCEPT !.toks = open \o @ \o close]

iterencode(o, level, style, cls, drawn) ==
    CASE o.t = "num" -> Encoded(<<NumTok(o.n)>>)
      [] o.t = "str" -> Encoded(<<Quote, Chars(o.s), Quote>>)
      [] o.t = "arr" ->
            IF Len(o.a) = 0
            THEN Encoded(<<P("["), P("]")>>)
            ELSE Bracketed(<<P("[")>> \o NewlineTok(style, level + 1),
                           iterencode_items(o, 1, level + 1, style, cls, drawn),
                           NewlineTok(style, level) \o <<P("]")>>)
      [] o.t = "obj" ->
            IF Len(o.a) = 0
            THEN Encoded(<<P("{"), P("}")>>)
            ELSE Bracketed(<<P("{")>> \o NewlineTok(style, level + 1),
                           iterencode_items(o, 1, level + 1, style, cls, drawn),
                           NewlineTok(style, level) \o <<P("}")>>)
      [] OTHER -> default(o, cls, drawn)

Joined(prefix, head, rest) ==
    [toks |-> prefix \o head.toks \o rest.toks,
     map |-> head.map \o rest.map,
     err |-> rest.err]

\* item i is encoded (head); the items behind it follow, unless it raised
items_behind(o, i, level, style, cls, drawn, prefix, head) ==
    IF head.err # "none"
    THEN head
    ELSE Joined(prefix, head,
                iterencode_items(o, i + 1, level, style, cls, drawn + Len(head.map)))

\* items i .. last of a list or dict, separated
iterencode_items(o, i, level, style, cls, drawn) ==
    IF i > Len(o.a)
    THEN Encoded(<<>>)
    ELSE items_behind(o, i, level, style, cls, drawn,
                      (IF i = 1 THEN <<>> ELSE style.item \o NewlineTok(style, level))
                      \o (IF o.t = "obj"
                          THEN <<Quote, Chars(o.a[i].s), Quote>> \o style.key
                          ELSE <<>>),
                      iterencode(IF o.t = "obj" THEN o.a[i].a[1] ELSE o.a[i],
                                 level, style, cls, drawn))

\* json.dumps(value, **custom_args) with the standard encoder
dumps(value, style) == iterencode(value, 0, style, "JSONEncoder", 0).toks

\* result.replace('"@@%s@@"' % (k,), v): every occurrence of the quoted
\* placeholder, quotes included, becomes v, scanning left to right: the
\* first occurrence is replaced and the scan goes on behind it
Match(result, k, i) ==
    /\ result[i] = Quote
    /\ result[i + 1] = PlaceholderChars(k)
    /\ result[i + 2] = Quote

RECURSIVE replace(_, _, _)

\* (variant: '@@%s@@' replaced, the quotes around it left in the text)
replace_at_unquoted(result, k, v, i) ==
    SubSeq(result, 1, i) \o v \o replace(SubSeq(result, i + 2, Len(result)), k, v)

\* the occurrence at i replaced, and the rest of the text scanned
replace_at(result, k, v, i) ==
    SubSeq(result, 1, i - 1) \o v \o replace(SubSeq(result, i + 3, Len(result)), k, v)

replace_first(result, k, v, found) ==
    IF found = {}
    THEN result
    ELSE replace_at(result, k, v, CHOOSE i \in found : \A j \in found : i <= j)

replace(result, k, v) ==
    replace_first(result, k, v, {i \in 1..(Len(result) - 2) : Match(result, k, i)})

RECURSIVE replace_all(_, _, _)
replace_all(result, map, k) ==
    IF k > Len(map) THEN result
    ELSE replace_all(replace(result, k, map[k]), map, k + 1)

\* CustomEncoder.encode: the standard encoding, then one replacement per
\* entry of _replacement_map
substitute(encoded) == replace_all(encoded.toks, encoded.map, 1)

encode(o, style) == substitute(iterencode(o, 0, style, "CustomEncoder", 0))

\* --------------------------------------------------------------- the state
VARIABLES
    output_name,    \* self.output_name
    vars_to_write,  \* self.vars_to_write
    tiled,          \* self.tiled
    range_type,     \* self.range_type
    tile_shape,     \* self.tile_shape
    axis_list,      \* self.axis_list, the keys of reader.get_axes()
    ref_list,       \* self.ref_list, the reference system classes appended
    reader,         \* self.reader: the data source, read-only
    files,          \* the output sink: path -> text, <<>> where no file is
    log,            \* the paths the sink wrote in the last write(), in order
    coverage,       \* the mapping _construct_coverage returned last, unmarked
    result          \* how the last write() ended: none, ok or the exception

vars == <<output_name, vars_to_write, tiled, range_type, tile_shape, axis_list,
          ref_list, reader, files, log, coverage, result>>

None == [t |-> "None", n |-> 0, s |-> "", a |-> <<>>]

\* ----------------------------------------------------- the data source
\* (pycovjson.read_netcdf.NetCDFReader, consumed through its accessors)
VarNames == {"temperature", "salinity"}
AxisOrder == <<"x", "y", "z", "t">>
DimOrder == <<"T", "Z", "Y", "X">>

\* str.lower on the dimension names
lower(name) ==
    CASE name = "T" -> "t" [] name = "Z" -> "z" [] name = "Y" -> "y"
      [] name = "X" -> "x" [] OTHER -> name

RECURSIVE Product(_)
Product(shape) == IF Len(shape) = 0 THEN 1 ELSE Head(shape) * Product(Tail(shape))

Iota(count, base) == [i \in 1..count |-> base + i - 1]

get_axes(rd) == SelectSeq(AxisOrder, LAMBDA ax : rd.extent[ax] > 0)
get_x(rd) == Iota(rd.extent["x"], 10)
get_y(rd) == Iota(rd.extent["y"], 20)
get_z(rd) == Iota(rd.extent["z"], 30)
get_t(rd) == Iota(rd.extent["t"], 40)
get_axis(rd, variable) == SelectSeq(DimOrder, LAMBDA d : rd.extent[lower(d)] > 0)
ExtentsOf(rd, dims) == [i \in 1..Len(dims) |-> rd.extent[lower(dims[i])]]
get_shape(rd, variable) == ExtentsOf(rd, get_axis(rd, variable))
\* the flattened values; a mismatched source returns one value more than its
\* reported shape holds
get_values(rd, variable) ==
    Iota(Product(get_shape(rd, variable)) + (IF rd.mismatch THEN 1 ELSE 0),
         IF variable = "temperature" THEN 0 ELSE 100)
get_type(rd, variable) == IF variable = "temperature" THEN "float" ELSE "integer"
get_std_name(rd, variable) ==
    IF variable = "temperature" THEN "sea_water_temperature" ELSE "sea_water_salinity"
get_units(rd, variable) == IF variable = "temperature" THEN "kelvin" ELSE "psu"
\* reader.dataset[variable].units and .long_name
dataset_units(rd, variable) == IF variable = "temperature" THEN "K" ELSE "1e-3"
long_name(rd, variable) ==
    IF variable = "temperature" THEN "Sea temperature" ELSE "Sea salinity"

\* ------------------------------------------- pycovjson.model, as dictionaries
\* Reference(ref_list).to_list(): one {coordinates, system} per class
ReferenceDict(cls) ==
    CASE cls = "TemporalReferenceSystem" ->
            Obj(<<Pair("coordinates", StrArr(<<"t">>)),
                  Pair("system", Obj(<<Pair("type", Str("TemporalRS"))>>))>>)
      [] cls = "SpatialReferenceSystem3d" ->
            Obj(<<Pair("coordinates", StrArr(<<"x", "y", "z">>)),
                  Pair("system", Obj(<<Pair("type", Str("GeographicCRS"))>>))>>)
      [] OTHER ->
            Obj(<<Pair("coordinates", StrArr(<<"x", "y">>)),
                  Pair("system", Obj(<<Pair("type", Str("GeographicCRS"))>>))>>)

Reference(refs) == Arr([i \in 1..Len(refs) |-> ReferenceDict(refs[i])])

AxisDict(values) == Obj(<<Pair("values", NumArr(values))>>)

\* Domain(domain_type, x, y, z, t).to_dict(): z and t only when not empty
Domain(domain_type, x_values, y_values, z_values, t_values) ==
    Obj(<<Pair("type", Str("Domain")),
          Pair("domainType", Str(domain_type)),
          Pair("axes",
               Obj(<<Pair("x", AxisDict(x_values)), Pair("y", AxisDict(y_values))>>
                   \o (IF Len(z_values) > 0 THEN <<Pair("z", AxisDict(z_values))>> ELSE <<>>)
                   \o (IF Len(t_values) > 0 THEN <<Pair("t", AxisDict(t_values))>> ELSE <<>>)))>>)

\* Parameter(...).to_dict(): one entry, keyed by the variable name
Parameter(description, variable_name, symbol, unit, observed_property) ==
    Obj(<<Pair(variable_name,
               Obj(<<Pair("type", Str("Parameter")),
                     Pair("description", Str(description)),
                     Pair("unit", Str(unit)),
                     Pair("symbol", Str(symbol)),
                     Pair("observedProperty", Str(observed_property))>>))>>)

\* Range(...).to_dict(): one entry, keyed by the variable name; inline
\* values for NdArray, tileSets for TiledNdArray
Range(rtype, data_type, axes, shape, values, variable_name, tile_sets) ==
    Obj(<<Pair(variable_name,
               Obj(<<Pair("type", Str(rtype)),
                     Pair("dataType", Str(data_type)),
                     Pair("axisNames", StrArr(axes)),
                     Pair("shape", NumArr(shape))>>
                   \o (IF rtype = "TiledNdArray"
                       THEN <<Pair("tileSets", tile_sets)>>
                       ELSE <<Pair("values", NumArr(values))>>)))>>)

\* Coverage(domain, ranges, params, reference).to_dict(); the referencing
\* list is the domain's, where _save_covjson reads it
Coverage(domain, ranges, params, refs) ==
    Obj(<<Pair("type", Str("Coverage")),
          Pair("domain", [domain EXCEPT !.a = @ \o <<Pair("referencing", refs)>>]),
          Pair("parameters", params),
          Pair("ranges", ranges)>>)

\* TileSet.get_tiles: one tile per step of the leading axis, tile k holding
\* the k-th run of the flattened values
TileCount(shape) == IF Len(shape) = 0 THEN 0 ELSE shape[1]
TileValues(shape, values, k) ==
    SubSeq(values, (k - 1) * Product(Tail(shape)) + 1, k * Product(Tail(shape)))
\* TileSet(shape, url_template).create_tileset(tile_shape): one entry per tile
create_tileset(shape, url_template, tshape) ==
    Arr([k \in 1..TileCount(shape) |->
            Obj(<<Pair("tileShape", NumArr(tshape)),
                  Pair("urlTemplate", Str(url_template))>>)])

\* ------------------------------------------------------------ class Writer
\* (variant: the URL template stored under the name the tiled branch reads)
WriterAttributesUrlTemplate ==
    {"output_name", "tile_shape", "vars_to_write", "urlTemplate", "tiled",
     "range_type", "dataset_path", "reader", "axis_dict", "axis_list",
     "ref_list", "endpoint_url", "covjson_ld"}

\* the attributes Writer.__init__ sets on self
WriterAttributes ==
    {"output_name", "tile_shape", "vars_to_write", "url_template", "tiled",
     "range_type", "dataset_path", "reader", "axis_dict", "axis_list",
     "ref_list", "endpoint_url", "covjson_ld"}

In(axes, ax) == \E i \in 1..Len(axes) : axes[i] = ax

\* (variant: the last branch an else, so that z without t gets a 2D reference)
init_ref_list_else(axes) ==
    LET first == IF In(axes, "t") /\ In(axes, "z")
                 THEN <<"TemporalReferenceSystem", "SpatialReferenceSystem3d">>
                 ELSE <<>>
    IN  IF In(axes, "t") /\ ~In(axes, "z")
        THEN first \o <<"TemporalReferenceSystem", "SpatialReferenceSystem2d">>
        ELSE IF ~In(axes, "t")
             THEN first \o <<"SpatialReferenceSystem2d">>
             ELSE first

\* Writer.__init__: ref_list from the axis list, an if followed by an if/elif
init_ref_list(axes) ==
    LET first == IF In(axes, "t") /\ In(axes, "z")
                 THEN <<"TemporalReferenceSystem", "SpatialReferenceSystem3d">>
                 ELSE <<>>
    IN  IF In(axes, "t") /\ ~In(axes, "z")
        THEN first \o <<"TemporalReferenceSystem", "SpatialReferenceSystem2d">>
        ELSE IF ~In(axes, "t") /\ ~In(axes, "z")
             THEN first \o <<"SpatialReferenceSystem2d">>
             ELSE first

init_range_type(isTiled) == IF isTiled THEN "TiledNdArray" ELSE "NdArray"

\* str(count) + '.covjson'
TileNames == <<"1.covjson", "2.covjson", "3.covjson", "4.covjson", "5.covjson">>
tile_path(count) == TileNames[count]

OutputNames == {"out.covjson", "1.covjson"}
Paths == OutputNames \cup {TileNames[i] : i \in 1..Len(TileNames)}

_construct_domain(rd, axes) ==
    Domain("Grid", get_x(rd), get_y(rd),
           IF In(axes, "z") THEN get_z(rd) ELSE <<>>,
           IF In(axes, "t") THEN get_t(rd) ELSE <<>>)

\* (variant: the return inside the loop, as in _construct_range)
params_loop_first(rd, rest, params) ==
    IF Len(rest) = 0
    THEN params
    ELSE Parameter(get_std_name(rd, Head(rest)), Head(rest),
                   dataset_units(rd, Head(rest)), get_units(rd, Head(rest)),
                   long_name(rd, Head(rest)))

\* the loop of _construct_params: params is rebound by every iteration and
\* returned after the loop; with no iteration the name is unbound
RECURSIVE params_loop(_, _, _)
params_loop(rd, rest, params) ==
    IF Len(rest) = 0
    THEN params
    ELSE LET variable == Head(rest)
         IN  params_loop(rd, Tail(rest),
                         Parameter(get_std_name(rd, variable), variable,
                                   dataset_units(rd, variable), get_units(rd, variable),
                                   long_name(rd, variable)))

_construct_params(rd, vs) ==
    IF Len(vs) = 0
    THEN [err |-> "UnboundLocalError", params |-> None]
    ELSE [err |-> "none", params |-> params_loop(rd, vs, None)]

_construct_refs(refs) == Reference(refs)

\* compact(obj, *names) and no_indent(obj, *names): obj[name] = Custom(...)
RECURSIVE compact(_, _)
compact(obj, names) ==
    IF Len(names) = 0 THEN obj
    ELSE compact(Put(obj, Head(names), Custom(Get(obj, Head(names)), "compact")),
                 Tail(names))

RECURSIVE no_indent(_, _)
no_indent(obj, names) ==
    IF Len(names) = 0 THEN obj
    ELSE no_indent(Put(obj, Head(names), Custom(Get(obj, Head(names)), "no_indent")),
                   Tail(names))

\* save_json: open(path, 'w') raises on an unwritable path; otherwise the
\* file holds json.dumps(obj, cls=CustomEncoder, **kw)
save_json(obj, path, style, bad) ==
    IF path \in bad
    THEN [err |-> "OSError", writes |-> <<>>]
    ELSE [err |-> "none", writes |-> <<[path |-> path, text |-> encode(obj, style)]>>]

\* for covrange in obj['ranges'].values(): no_indent(...); compact(...)
MarkedRanges(ranges) ==
    [ranges EXCEPT !.a = [i \in 1..Len(ranges.a) |->
        Pair(ranges.a[i].s,
             compact(no_indent(ranges.a[i].a[1], <<"axisNames", "shape">>),
                     <<"values">>))]]

MarkRanges(obj) == Put(obj, "ranges", MarkedRanges(Get(obj, "ranges")))

\* for axis in obj['domain']['axes'].values(): compact(axis, 'values')
MarkedAxes(axes) ==
    [axes EXCEPT !.a = [i \in 1..Len(axes.a) |->
        Pair(axes.a[i].s, compact(axes.a[i].a[1], <<"values">>))]]

\* for ref in obj['domain']['referencing']: no_indent(ref, 'coordinates')
MarkedRefs(refs) ==
    [refs EXCEPT !.a = [i \in 1..Len(refs.a) |-> no_indent(refs.a[i], <<"coordinates">>)]]

MarkedDomain(domain) ==
    Put(Put(domain, "axes", MarkedAxes(Get(domain, "axes"))),
        "referencing", MarkedRefs(Get(domain, "referencing")))

MarkDomain(obj) == Put(obj, "domain", MarkedDomain(Get(obj, "domain")))

_save_covjson(obj, path, bad) == save_json(MarkRanges(MarkDomain(obj)), path, IndentStyle, bad)

save_covjson_tiled(obj, path, bad) == save_json(MarkDomain(obj), path, IndentStyle, bad)

save_covjson_range(obj, path, bad) == save_json(MarkRanges(obj), path, IndentStyle, bad)

\* the tile loop of _construct_range: tile count+1 .. last, each written at
\* once under the variable's whole shape; a failed write ends the loop with
\* the exception
RECURSIVE tile_loop(_, _, _, _, _)

tile_saved(rd, variable, count, bad, done, saved) ==
    IF saved.err # "none"
    THEN [err |-> saved.err, writes |-> done]
    ELSE tile_loop(rd, variable, count + 1, bad, done \o saved.writes)

tile_loop(rd, variable, count, bad, done) ==
    IF count >= TileCount(get_shape(rd, variable))
    THEN [err |-> "none", writes |-> done]
    ELSE tile_saved(rd, variable, count, bad, done,
                    save_covjson_range(
                        Obj(<<Pair("ranges",
                                   Range("NdArray", get_type(rd, variable),
                                         Tail(get_axis(rd, variable)),
                                         get_shape(rd, variable),
                                         TileValues(get_shape(rd, variable),
                                                    get_values(rd, variable), count + 1),
                                         "", <<>>))>>),
                        tile_path(count + 1), bad))

axis_names(dims) == [i \in 1..Len(dims) |-> lower(dims[i])]

\* the tiled branch behind the tile loop: the TiledNdArray range
tiled_range(rd, variable, tshape, tiles) ==
    IF tiles.err # "none"
    THEN [err |-> tiles.err, range |-> None, writes |-> tiles.writes]
    ELSE [err |-> "none",
          range |-> Range("TiledNdArray", get_type(rd, variable),
                          axis_names(get_axis(rd, variable)), get_shape(rd, variable),
                          <<>>, variable,
                          create_tileset(get_shape(rd, variable),
                                         "localhost:8080/{t}.covjson", tshape)),
          writes |-> tiles.writes]

\* the body of the loop of _construct_range, for one variable
range_of(rd, variable, isTiled, tshape, bad) ==
    IF isTiled
    THEN IF "urlTemplate" \notin WriterAttributes
         THEN [err |-> "AttributeError", range |-> None, writes |-> <<>>]
         ELSE tiled_range(rd, variable, tshape, tile_loop(rd, variable, 0, bad, <<>>))
    ELSE [err |-> "none",
          range |-> Range("NdArray", get_type(rd, variable),
                          axis_names(get_axis(rd, variable)), get_shape(rd, variable),
                          get_values(rd, variable), variable, <<>>),
          writes |-> <<>>]

\* (variant: the return behind the loop, as in _construct_params)
_construct_range_last(rd, vs, isTiled, tshape, bad) ==
    IF Len(vs) = 0
    THEN [err |-> "none", range |-> None, writes |-> <<>>]
    ELSE range_of(rd, vs[Len(vs)], isTiled, tshape, bad)

\* _construct_range: the body of the loop returns in its first iteration;
\* with no iteration the function returns None
_construct_range(rd, vs, isTiled, tshape, bad) ==
    IF Len(vs) = 0
    THEN [err |-> "none", range |-> None, writes |-> <<>>]
    ELSE range_of(rd, Head(vs), isTiled, tshape, bad)

\* Coverage(domain, range, params, refs).to_dict() of the parts built
assemble(domain, rng, par, refs) ==
    IF rng.err # "none"
    THEN [err |-> rng.err, coverage |-> None, writes |-> rng.writes]
    ELSE IF par.err # "none"
         THEN [err |-> par.err, coverage |-> None, writes |-> rng.writes]
         ELSE [err |-> "none",
               coverage |-> Coverage(domain, rng.range, par.params, refs),
               writes |-> rng.writes]

\* _construct_coverage: the four builders, called left to right
_construct_coverage(rd, vs, isTiled, tshape, refs, axes, bad) ==
    assemble(_construct_domain(rd, axes),
             _construct_range(rd, vs, isTiled, tshape, bad),
             _construct_params(rd, vs),
             _construct_refs(refs))

\* ------------------------------------------------------------ the machine
Extents ==
    {e \in [{"x", "y", "z", "t"} -> 0..(MaxT + MaxExtent)] :
        /\ e["x"] \in 1..MaxExtent
        /\ e["y"] \in 1..MaxExtent
        /\ e["z"] \in 0..1
        /\ e["t"] \in 0..MaxT}

VarLists == UNION {[1..len -> VarNames] : len \in 0..MaxVars}

Init ==
    /\ reader \in [extent : Extents, mismatch : BOOLEAN]
    /\ output_name \in OutputNames
    /\ vars_to_write \in VarLists
    /\ tiled \in BOOLEAN
    /\ range_type = init_range_type(tiled)
    /\ tile_shape = IF tiled THEN <<reader.extent["y"], reader.extent["x"]>> ELSE <<>>
    /\ axis_list = get_axes(reader)
    /\ ref_list = init_ref_list(axis_list)
    /\ files = [p \in Paths |-> <<>>]
    /\ log = <<>>
    /\ coverage = None
    /\ result = "none"

RECURSIVE Store(_, _)
Store(fs, writes) ==
    IF Len(writes) = 0 THEN fs
    ELSE Store([fs EXCEPT ![Head(writes).path] = Head(writes).text], Tail(writes))

\* the second half of Writer.write: the main document saved, unless the
\* construction raised
save_main(built, isTiled, path, bad) ==
    IF built.err # "none"
    THEN [err |-> built.err, writes |-> <<>>]
    ELSE IF isTiled
         THEN save_covjson_tiled(built.coverage, path, bad)
         ELSE _save_covjson(built.coverage, path, bad)

PathsOf(writes) == [i \in 1..Len(writes) |-> writes[i].path]

\* Writer.write, with the set of paths the sink cannot open
write(bad) ==
    \E built \in {_construct_coverage(reader, vars_to_write, tiled, tile_shape,
                                      ref_list, axis_list, bad)} :
        \E saved \in {save_main(built, tiled, output_name, bad)} :
            /\ files' = Store(files, built.writes \o saved.writes)
            /\ log' = PathsOf(built.writes \o saved.writes)
            /\ coverage' = built.coverage
            /\ result' = IF saved.err = "none" THEN "ok" ELSE saved.err
            /\ UNCHANGED <<output_name, vars_to_write, tiled, range_type, tile_shape,
                           axis_list, ref_list, reader>>

\* a write() with the sink opening every path, and one with the sink failing
\* to open output_name
Write == write({})
WriteUnwritable == write({output_name})

Next == Write \/ WriteUnwritable

Spec == Init /\ [][Next]_vars

\* ------------------------------------------------------------- properties
\* A standard JSON parser, the reader of the documents written.
\* Whitespace between tokens is insignificant; anything that is not a JSON
\* value followed by the end of the text gives Invalid.
StripWs(toks) == SelectSeq(toks, LAMBDA x : x.k # "ws")
Invalid == [t |-> "invalid", n |-> 0, s |-> "", a |-> <<>>]
Fail == [ok |-> FALSE, v |-> Invalid, i |-> 0]
IsTok(toks, i, x) == i <= Len(toks) /\ toks[i] = x

RECURSIVE ParseValue(_, _)
RECURSIVE ParseElems(_, _, _)
RECURSIVE ParseMembers(_, _, _)

ParseString(toks, i) ==
    IF /\ IsTok(toks, i, Quote)
       /\ i + 2 <= Len(toks)
       /\ toks[i + 1].k = "chars"
       /\ toks[i + 2] = Quote
    THEN [ok |-> TRUE, v |-> toks[i + 1], i |-> i + 3]
    ELSE Fail

ParseValue(toks, i) ==
    IF i > Len(toks) THEN Fail
    ELSE IF toks[i].k = "num" THEN [ok |-> TRUE, v |-> Num(toks[i].n), i |-> i + 1]
    ELSE IF toks[i] = Quote
         THEN LET r == ParseString(toks, i)
              IN  IF r.ok /\ r.v.n = 0
                  THEN [ok |-> TRUE, v |-> Str(r.v.s), i |-> r.i]
                  ELSE IF r.ok
                       THEN [ok |-> TRUE, v |-> [Str(r.v.s) EXCEPT !.n = r.v.n], i |-> r.i]
                       ELSE Fail
    ELSE IF toks[i] = P("[")
         THEN IF IsTok(toks, i + 1, P("]"))
              THEN [ok |-> TRUE, v |-> Arr(<<>>), i |-> i + 2]
              ELSE ParseElems(toks, i + 1, <<>>)
    ELSE IF toks[i] = P("{")
         THEN IF IsTok(toks, i + 1, P("}"))
              THEN [ok |-> TRUE, v |-> Obj(<<>>), i |-> i + 2]
              ELSE ParseMembers(toks, i + 1, <<>>)
    ELSE Fail

ParseElems(toks, i, acc) ==
    LET r == ParseValue(toks, i)
    IN  IF ~r.ok THEN Fail
        ELSE IF IsTok(toks, r.i, P(","))
             THEN ParseElems(toks, r.i + 1, Append(acc, r.v))
        ELSE IF IsTok(toks, r.i, P("]"))
             THEN [ok |-> TRUE, v |-> Arr(Append(acc, r.v)), i |-> r.i + 1]
        ELSE Fail

ParseMembers(toks, i, acc) ==
    LET key == ParseString(toks, i)
        r == ParseValue(toks, key.i + 1)
    IN  IF ~key.ok \/ ~IsTok(toks, key.i, P(":")) \/ ~r.ok THEN Fail
        ELSE IF IsTok(toks, r.i, P(","))
             THEN ParseMembers(toks, r.i + 1, Append(acc, Pair(key.v.s, r.v)))
        ELSE IF IsTok(toks, r.i, P("}"))
             THEN [ok |-> TRUE, v |-> Obj(Append(acc, Pair(key.v.s, r.v))), i |-> r.i + 1]
        ELSE Fail

loads(text) ==
    LET toks == StripWs(text)
        r == ParseValue(toks, 1)
    IN  IF r.ok /\ r.i = Len(toks) + 1 THEN r.v ELSE Invalid

\* does any placeholder token remain in a text
HasPlaceholder(text) == \E i \in 1..Len(text) : text[i].k = "chars" /\ text[i].n > 0

AxisSet == {axis_list[i] : i \in 1..Len(axis_list)}
FirstVar == vars_to_write[1]
LastVar == vars_to_write[Len(vars_to_write)]
Numbers(arr) == [i \in 1..Len(arr.a) |-> arr.a[i].n]
TheRange(cov) == Get(cov, "ranges").a[1].a[1]
TheParameter(cov) == Get(cov, "parameters").a[1].a[1]
\* the paths of tiles 1 .. count, then the main document
TiledPaths(count, main) ==
    [k \in 1..(count + 1) |-> IF k <= count THEN tile_path(k) ELSE main]
IsPrefix(short, long) ==
    Len(short) <= Len(long) /\ short = SubSeq(long, 1, Len(short))

C2_ReferenceSelection ==
    /\ AxisSet = {"x", "y", "t", "z"} =>
           ref_list = <<"TemporalReferenceSystem", "SpatialReferenceSystem3d">>
    /\ AxisSet = {"x", "y", "t"} =>
           ref_list = <<"TemporalReferenceSystem", "SpatialReferenceSystem2d">>
    /\ AxisSet = {"x", "y"} => ref_list = <<"SpatialReferenceSystem2d">>
    /\ AxisSet = {"x", "y", "z"} => ref_list = <<>>
    /\ coverage # None =>
           Len(Get(Get(coverage, "domain"), "referencing").a) = Len(ref_list)

C2_Witness ==
    /\ AxisSet = {"x", "y", "z"}
    /\ ref_list = <<>>
    /\ Len(vars_to_write) = 2
    /\ result = "ok"
    /\ Get(Get(coverage, "domain"), "referencing") = Arr(<<>>)

\* C3 (as claimed): a tiled write() of a [T,H,W] variable with tile_shape
\* [H,W], the sink opening every path, writes tiles 1 .. T and then the main
\* document, whose range is a TiledNdArray.
C3_TiledWritesTilesThenMain ==
    (/\ tiled
     /\ AxisSet = {"x", "y", "t"}
     /\ Len(vars_to_write) >= 1
     /\ result \notin {"none", "OSError"}) =>
        /\ result = "ok"
        /\ log = TiledPaths(reader.extent["t"], output_name)
        /\ Get(TheRange(coverage), "type") = Str("TiledNdArray")

\* C4 (as claimed): every variable name in the ranges of the assembled
\* Coverage has an entry in its parameters.
C4_RangesHaveParameters ==
    coverage # None =>
        Keys(Get(coverage, "ranges")) \subseteq Keys(Get(coverage, "parameters"))

\* C5 (as claimed): every NdArray range of every document in the sink has as
\* many values as the product of its shape.
NdArrayConsistent(rng) ==
    Get(rng, "type") = Str("NdArray") =>
        Len(Get(rng, "values").a) = Product(Numbers(Get(rng, "shape")))

C5_ShapeInvariant ==
    \A p \in Paths :
        files[p] # <<>> =>
            \A i \in 1..Len(Get(loads(files[p]), "ranges").a) :
                NdArrayConsistent(Get(loads(files[p]), "ranges").a[i].a[1])

\* C6 (as claimed): with a data source whose shape and value count disagree,
\* a write() ends in an error and the sink has written nothing.
C6_MismatchRaises ==
    (reader.mismatch /\ Len(vars_to_write) >= 1 /\ result # "none") =>
        (result # "ok" /\ log = <<>>)

C8_ParamsIsLast ==
    (Len(vars_to_write) >= 2 /\ coverage # None) =>
        /\ Keys(Get(coverage, "parameters")) = {LastVar}
        /\ Get(TheParameter(coverage), "description") = Str(get_std_name(reader, LastVar))
        /\ Get(TheParameter(coverage), "observedProperty") = Str(long_name(reader, LastVar))

C8_Witness ==
    /\ Len(vars_to_write) >= 2 /\ coverage # None
    /\ FirstVar # LastVar
    /\ Keys(Get(coverage, "parameters")) = {LastVar}

\* C9 (as claimed): a tiled write() that has ended wrote its tiles in order,
\* tile k at <k>.covjson, and then the main document; or a sink write failed
\* and what it wrote before is a prefix of that sequence.
C9_TilesInOrderOrSinkFailure ==
    (tiled /\ Len(vars_to_write) >= 1 /\ result # "none") =>
        \/ /\ result = "ok"
           /\ log = TiledPaths(TileCount(get_shape(reader, FirstVar)), output_name)
        \/ /\ result = "OSError"
           /\ Len(log) <= TileCount(get_shape(reader, FirstVar))
           /\ IsPrefix(log, TiledPaths(TileCount(get_shape(reader, FirstVar)), output_name))

====
